---- MODULE Spec2Model ----
(***************************************************************************)
(* ShopSync API (src/main.py): the request handlers of the vehicle,        *)
(* approval and service-record endpoints over the tables of the hosted     *)
(* store and the SMS sink.                                                 *)
(*                                                                         *)
(* One state variable per table.  A handler is an invocation slot call[p]: *)
(* every step of a handler is one call on the store (select, insert,       *)
(* update, delete) or on the sink.  A select returns the rows of the       *)
(* table; a write may be rejected by the store, which raises in the        *)
(* handler and takes its except clause.                                    *)
(***************************************************************************)
EXTENDS Integers, Sequences, FiniteSets, TLC

\* ------------------------------------------------------------------ bounds
MaxVehicles == 2
MaxTokens == 4
MaxUpdates == 2
MaxRows == 2
MaxTicks == 1
TickDays == 30

\* timedelta(days=30 * reminder_interval_months)
DaysPerMonth == 30
NumProcs == 2
\* the service records there are when overlapping dispatch invocations begin
MaxDue == 1

\* --------------------------------------------------------------- constants
NULL == "NULL"
VehicleIds == 1 .. MaxVehicles
Tokens == 1 .. MaxTokens
Procs == 1 .. NumProcs
\* new_status is a free string (schemas.StatusUpdate): the values requests carry
StatusInputs == {"checked_in", "in_progress"}
NoteInputs == {NULL, "note"}
UserIds == {"u1"}
\* reminder_interval_months is Optional[int] (schemas.ServiceRecordCreate),
\* with no validator: absent, zero, one month, and three intervals whose
\* date Python cannot represent
MonthInputs == {<<>>, <<0>>, <<1>>, <<100000>>, <<40000000>>, <<-100000>>}
\* an Optional value: None, or Some(x)
None == <<>>
Some(x) == <<x>>

VARIABLES
    vehicles,          \* table vehicles: vehicle_id -> row
    issued,            \* the tracking tokens given to a created vehicle so far
    updates,           \* table updates, in insertion order
    twilioConfigured,  \* twilio_client is not None
    enableStatusSms,   \* ENABLE_STATUS_SMS
    messages,          \* table messages, in insertion order
    media,             \* table media, in insertion order
    approvals,         \* table approvals, in insertion order
    service_records,   \* table service_records, in insertion order
    nextId,            \* the ids the store has generated for those four tables so far
    now,               \* datetime.now(), in days
    retry,             \* the records whose text failed in the last dispatch that ended
    deleted,           \* vehicles deleted with success
    hist,              \* per vehicle: its rows before each of its last toggles in a row
    call,              \* per slot: the handler running there and its locals
    pre                \* per slot: the tables as they were when its handler began

cfgVars == <<twilioConfigured, enableStatusSms>>
childVars == <<messages, media, approvals, service_records, nextId, deleted>>
vars == <<vehicles, issued, updates, childVars, now, retry, hist, cfgVars, call, pre>>

Idle == [op |-> "idle", pc |-> "idle"]
NoSnap == [taken |-> FALSE]
Snapshot ==
    [taken |-> TRUE, vehicles |-> vehicles, updates |-> updates, messages |-> messages,
     media |-> media, approvals |-> approvals, service_records |-> service_records]

AllIdle == \A q \in Procs : call[q].op = "idle"

\* ------------------------------------------------------------- the store
\* select * from vehicles where vehicle_id = v: the rows, as a sequence
SelectVehicle(v) == IF v \in DOMAIN vehicles THEN <<vehicles[v]>> ELSE <<>>

\* select * from vehicles where unique_link = t
SelectByLink(t) ==
    LET hit == {v \in DOMAIN vehicles : vehicles[v].unique_link = t}
    IN  IF hit = {} THEN <<>> ELSE <<vehicles[CHOOSE v \in hit : TRUE]>>

\* uuid.uuid4(): a token no vehicle was given before (tokens are
\* interchangeable: the first unused one, counted down from MaxTokens)
Uuid4 == MaxTokens - Cardinality(issued)

\* the next vehicle_id the store generates: ids are never given twice
NextVehicleId == Cardinality(issued) + 1

\* ---------------------------------------------------------------- send_sms
\* send_sms returns True only when the client is configured and the carrier
\* accepts the message; a carrier exception is caught and gives False.
SmsResult(carrierOk) == twilioConfigured /\ carrierOk

\* what a handler's one call of send_sms came to
SmsOutcome(carrierOk) ==
    IF ~twilioConfigured THEN "unconfigured"
    ELSE IF SmsResult(carrierOk) THEN "sent" ELSE "failed"

\* ------------------------------------------------------------------- Init
Init ==
    /\ vehicles = <<>>
    /\ issued = {}
    /\ updates = <<>>
    /\ messages = <<>>
    /\ media = <<>>
    /\ approvals = <<>>
    /\ service_records = <<>>
    /\ nextId = 0
    /\ now = 0
    /\ deleted = {}
    /\ retry = {}
    /\ hist = [v \in VehicleIds |-> <<>>]
    /\ twilioConfigured \in BOOLEAN
    /\ enableStatusSms \in BOOLEAN
    /\ call = [p \in Procs |-> Idle]
    /\ pre = [p \in Procs |-> NoSnap]

\* --------------------------------------------------------- create_vehicle
\* VehicleResponse(**vehicle_data): the fields the response model declares,
\* awaiting_warranty not among them
VehicleResponse(row) ==
    [vehicle_id |-> row.vehicle_id, unique_link |-> row.unique_link, status |-> row.status]

\* POST /vehicles/: a fresh uuid4 token, the insert with status checked_in,
\* the check-in text, then the answer built from the row the store returned.
\* A rejected insert raises and ends in 500 with nothing stored or sent.
\* VehicleResponse(**vehicle_data) is still inside the try block: when the
\* returned row does not satisfy the response model (rowValid false) it
\* raises after the row is stored and the text attempted, and the answer
\* is 500.
CreateVehicle(p, t, insertOk, rowValid, carrierOk) ==
    /\ call[p].op = "idle"
    /\ NextVehicleId \in VehicleIds
    /\ t = Uuid4
    /\ pre' = [pre EXCEPT ![p] = Snapshot]
    /\ IF insertOk
       THEN LET v == NextVehicleId
                row == [vehicle_id |-> v, unique_link |-> t,
                        status |-> "checked_in", awaiting_warranty |-> FALSE]
            IN  /\ vehicles' = (v :> row) @@ vehicles
                /\ issued' = issued \cup {t}
                /\ call' = [call EXCEPT ![p] =
                       IF rowValid
                       THEN [op |-> "create_vehicle", pc |-> "done", code |-> 200,
                             body |-> VehicleResponse(row), sms |-> SmsOutcome(carrierOk)]
                       ELSE [op |-> "create_vehicle", pc |-> "done", code |-> 500,
                             body |-> NULL, sms |-> SmsOutcome(carrierOk)]]
       ELSE /\ call' = [call EXCEPT ![p] =
                  [op |-> "create_vehicle", pc |-> "done", code |-> 500,
                   body |-> NULL, sms |-> "none"]]
            /\ UNCHANGED <<vehicles, issued>>
    /\ UNCHANGED <<updates, hist, childVars, now, retry, cfgVars>>

\* ------------------------------------------------------ the except clauses
\* What a handler answers when its try block raised an HTTPException with
\* status code `raised`.  "except Exception" catches HTTPException too and
\* answers 500; update_vehicle_status re-raises HTTPException first.
ExceptException(raised) == 500
\* (a handler without the "except HTTPException: raise" clause)
ExceptHTTPExceptionSwallowed(raised) == 500
ExceptHTTPExceptionFirst(raised) == raised

\* ---------------------------------------------------- get_vehicle_by_link
\* GET /vehicles/{unique_link}: the 404 is raised inside the try block whose
\* only clause is "except Exception".
GetVehicleByLink(p, t) ==
    /\ call[p].op = "idle"
    /\ LET rows == SelectByLink(t)
       IN  call' = [call EXCEPT ![p] =
               IF rows = <<>>
               THEN [op |-> "get_vehicle_by_link", pc |-> "done", link |-> t,
                     code |-> ExceptException(404), body |-> NULL]
               ELSE [op |-> "get_vehicle_by_link", pc |-> "done", link |-> t,
                     code |-> 200, body |-> rows[1]]]
    /\ UNCHANGED pre
    /\ UNCHANGED <<vehicles, issued, updates, hist, childVars, now, retry, cfgVars>>

\* -------------------------------------------------- update_vehicle_status
\* PATCH /vehicles/{vehicle_id}/status, one step per call on the store or
\* the sink.  The select: no row raises 404, which "except HTTPException"
\* re-raises as it is.
StatusSelect(p, v, s, m, u) ==
    /\ call[p].op = "idle"
    /\ Len(updates) < MaxUpdates
    /\ LET rows == SelectVehicle(v)
           req == [op |-> "update_vehicle_status", vehicle_id |-> v, new_status |-> s,
                   message |-> m, user_id |-> u]
       IN  call' = [call EXCEPT ![p] =
               IF rows = <<>>
               THEN req @@ [pc |-> "done", code |-> ExceptHTTPExceptionFirst(404),
                            old_status |-> NULL, sms |-> "none"]
               ELSE req @@ [pc |-> "update", code |-> 0,
                            old_status |-> rows[1].status, sms |-> "none"]]
    /\ pre' = [pre EXCEPT ![p] = Snapshot]
    /\ UNCHANGED <<vehicles, issued, updates, hist, childVars, now, retry, cfgVars>>

\* update vehicles set status = new_status where vehicle_id = v (no row is
\* no error); a rejected write raises and "except Exception" answers 500.
StatusWrite(p, writeOk) ==
    /\ call[p].op = "update_vehicle_status"
    /\ call[p].pc = "update"
    /\ LET v == call[p].vehicle_id
       IN  IF writeOk
           THEN /\ vehicles' = [x \in DOMAIN vehicles |->
                        IF x = v THEN [vehicles[x] EXCEPT !.status = call[p].new_status]
                        ELSE vehicles[x]]
                /\ hist' = [hist EXCEPT ![v] = <<>>]
                /\ call' = [call EXCEPT ![p].pc = "insert"]
           ELSE /\ call' = [call EXCEPT ![p].pc = "done", ![p].code = 500]
                /\ UNCHANGED <<vehicles, hist>>
    /\ UNCHANGED <<issued, updates, childVars, now, retry, cfgVars, pre>>

\* (old_status read back after the write instead of before it)
UpdateRecordReadAfterWrite(c) ==
    [vehicle_id |-> c.vehicle_id, user_id |-> c.user_id, old_status |-> c.new_status,
     new_status |-> c.new_status, message |-> c.message]

\* the row update_vehicle_status inserts into updates
UpdateRecord(c) ==
    [vehicle_id |-> c.vehicle_id, user_id |-> c.user_id, old_status |-> c.old_status,
     new_status |-> c.new_status, message |-> c.message]

StatusInsert(p, insertOk) ==
    /\ call[p].op = "update_vehicle_status"
    /\ call[p].pc = "insert"
    /\ IF insertOk
       THEN /\ updates' = Append(updates, UpdateRecord(call[p]))
            /\ call' = [call EXCEPT ![p].pc = "sms"]
       ELSE /\ call' = [call EXCEPT ![p].pc = "done", ![p].code = 500]
            /\ UNCHANGED updates
    /\ UNCHANGED <<vehicles, issued, hist, childVars, now, retry, cfgVars, pre>>

\* (a failed text surfaced as a failed request)
StatusNotifyFatal(p, carrierOk) ==
    /\ call[p].op = "update_vehicle_status"
    /\ call[p].pc = "sms"
    /\ IF enableStatusSms
       THEN call' = [call EXCEPT ![p].pc = "done",
                                 ![p].code = IF SmsOutcome(carrierOk) = "failed" THEN 500 ELSE 200,
                                 ![p].sms = SmsOutcome(carrierOk)]
       ELSE call' = [call EXCEPT ![p].pc = "done", ![p].code = 200,
                                 ![p].sms = "disabled"]
    /\ UNCHANGED <<vehicles, issued, updates, hist, childVars, now, retry, cfgVars, pre>>

\* the gated text, then the acknowledgment: the result of send_sms is only
\* printed.
StatusNotify(p, carrierOk) ==
    /\ call[p].op = "update_vehicle_status"
    /\ call[p].pc = "sms"
    /\ IF enableStatusSms
       THEN call' = [call EXCEPT ![p].pc = "done", ![p].code = 200,
                                 ![p].sms = SmsOutcome(carrierOk)]
       ELSE call' = [call EXCEPT ![p].pc = "done", ![p].code = 200,
                                 ![p].sms = "disabled"]
    /\ UNCHANGED <<vehicles, issued, updates, hist, childVars, now, retry, cfgVars, pre>>

\* the response is delivered and the slot is free again
Return(p) ==
    /\ call[p].pc = "done"
    /\ call' = [call EXCEPT ![p] = Idle]
    /\ pre' = [pre EXCEPT ![p] = NoSnap]
    /\ UNCHANGED <<vehicles, issued, updates, hist, childVars, now, retry, cfgVars>>

\* ------------------------------------------------- vehicle specification
\* Requests one at a time: a handler begins only when every slot is idle, and
\* then in the first slot (the slots are interchangeable).
FirstSlot == CHOOSE p \in Procs : \A q \in Procs : p <= q
Sequential(p) == AllIdle /\ p = FirstSlot

NextVehicle ==
    \/ \E p \in Procs, insertOk \in BOOLEAN, rowValid \in BOOLEAN, carrierOk \in BOOLEAN :
           Sequential(p) /\ CreateVehicle(p, Uuid4, insertOk, rowValid, carrierOk)
    \/ \E p \in Procs, t \in Tokens : Sequential(p) /\ GetVehicleByLink(p, t)
    \/ \E p \in Procs, v \in VehicleIds, s \in StatusInputs, m \in NoteInputs, u \in UserIds :
           Sequential(p) /\ StatusSelect(p, v, s, m, u)
    \/ \E p \in Procs, ok \in BOOLEAN : StatusWrite(p, ok)
    \/ \E p \in Procs, ok \in BOOLEAN : StatusInsert(p, ok)
    \/ \E p \in Procs, ok \in BOOLEAN : StatusNotify(p, ok)
    \/ \E p \in Procs : Return(p)

SpecVehicle == Init /\ [][NextVehicle]_vars

\* -------------------------------------------------------- toggle warranty
\* PATCH /vehicles/{vehicle_id}/toggle-warranty (spec 4.1): 404 when no
\* vehicle matches; else awaiting_warranty is flipped and the status follows
\* the new value: true forces awaiting_warranty, false forces in_progress.
WarrantyStatus(flag) == IF flag THEN "awaiting_warranty" ELSE "in_progress"

\* (the status put back to what it was before the hold, kept nowhere: the
\* status left alone when the hold is released)
ToggledRowKeepingStatus(row) ==
    [row EXCEPT !.awaiting_warranty = ~row.awaiting_warranty,
                !.status = IF ~row.awaiting_warranty THEN "awaiting_warranty" ELSE row.status]

ToggledRow(row) ==
    [row EXCEPT !.awaiting_warranty = ~row.awaiting_warranty,
                !.status = WarrantyStatus(~row.awaiting_warranty)]

\* the rows before a vehicle's last two toggles in a row
Remember(h, row) == IF Len(h) < 2 THEN Append(h, row) ELSE <<h[2], row>>

ToggleWarranty(p, v, writeOk, carrierOk) ==
    /\ call[p].op = "idle"
    /\ pre' = [pre EXCEPT ![p] = Snapshot]
    /\ LET rows == SelectVehicle(v)
           req == [op |-> "toggle_warranty", pc |-> "done", vehicle_id |-> v]
       IN  IF rows = <<>>
           THEN /\ call' = [call EXCEPT ![p] = req @@ [code |-> 404, sms |-> "none"]]
                /\ UNCHANGED <<vehicles, hist>>
           ELSE IF writeOk
           THEN /\ vehicles' = [vehicles EXCEPT ![v] = ToggledRow(rows[1])]
                /\ hist' = [hist EXCEPT ![v] = Remember(hist[v], rows[1])]
                /\ call' = [call EXCEPT ![p] =
                       req @@ [code |-> 200, sms |-> SmsOutcome(carrierOk)]]
           ELSE /\ call' = [call EXCEPT ![p] = req @@ [code |-> 500, sms |-> "none"]]
                /\ UNCHANGED <<vehicles, hist>>
    /\ UNCHANGED <<issued, updates, childVars, now, retry, cfgVars>>

\* ------------------------------------------------ warranty specification
\* The baselines: one or more vehicles, each with any status and any
\* awaiting_warranty value.  Every one is a state the handlers reach: a
\* transition sets any status whatever the flag, a toggle sets the flag.
AllStatuses == StatusInputs \cup {"awaiting_warranty", "in_progress"}

InitWarranty ==
    /\ \E n \in VehicleIds :
          /\ vehicles \in [1 .. n -> [vehicle_id : VehicleIds, unique_link : Tokens,
                                      status : AllStatuses, awaiting_warranty : BOOLEAN]]
          /\ \A v \in 1 .. n : /\ vehicles[v].vehicle_id = v
                               /\ vehicles[v].unique_link = MaxTokens + 1 - v
          /\ issued = {MaxTokens + 1 - v : v \in 1 .. n}
    /\ updates = <<>>
    /\ messages = <<>>
    /\ media = <<>>
    /\ approvals = <<>>
    /\ service_records = <<>>
    /\ nextId = 0
    /\ now = 0
    /\ deleted = {}
    /\ retry = {}
    /\ hist = [v \in VehicleIds |-> <<>>]
    /\ twilioConfigured \in BOOLEAN
    /\ enableStatusSms \in BOOLEAN
    /\ call = [p \in Procs |-> Idle]
    /\ pre = [p \in Procs |-> NoSnap]

NextWarranty ==
    \/ \E p \in Procs, v \in VehicleIds, writeOk \in BOOLEAN, carrierOk \in BOOLEAN :
           Sequential(p) /\ ToggleWarranty(p, v, writeOk, carrierOk)
    \/ \E p \in Procs : Return(p)

SpecWarranty == InitWarranty /\ [][NextWarranty]_vars

\* ------------------------------------------ messages, media, approvals
\* the rows of a table filed under vehicle v, and the table without them
RowsOf(table, v) == LET Of(r) == r.vehicle_id = v IN SelectSeq(table, Of)
Without(table, v) == LET NotOf(r) == r.vehicle_id # v IN SelectSeq(table, NotOf)
Reverse(seq) == [i \in 1 .. Len(seq) |-> seq[Len(seq) + 1 - i]]

\* no child table holds a row filed under vehicle v
NoRowsOf(v) ==
    /\ RowsOf(messages, v) = <<>>
    /\ RowsOf(media, v) = <<>>
    /\ RowsOf(approvals, v) = <<>>
    /\ RowsOf(service_records, v) = <<>>

\* the id the store generates for the next inserted row
NewId == nextId + 1

\* what a handler answers whose insert the store rejected
Rejected(op, v) == [op |-> op, pc |-> "done", vehicle_id |-> v, code |-> 500, body |-> NULL]
Inserted(op, v, row) == [op |-> op, pc |-> "done", vehicle_id |-> v, code |-> 200, body |-> row]

\* POST /vehicles/{vehicle_id}/messages: the insert, whatever the vehicle id
CreateMessage(p, v, insertOk) ==
    /\ call[p].op = "idle"
    /\ nextId < MaxRows
    /\ pre' = [pre EXCEPT ![p] = Snapshot]
    /\ IF insertOk
       THEN LET row == [id |-> NewId, vehicle_id |-> v]
            IN  /\ messages' = Append(messages, row)
                /\ nextId' = NewId
                /\ UNCHANGED deleted
                /\ call' = [call EXCEPT ![p] = Inserted("create_message", v, row)]
       ELSE /\ call' = [call EXCEPT ![p] = Rejected("create_message", v)]
            /\ UNCHANGED <<messages, nextId, deleted>>
    /\ UNCHANGED <<vehicles, issued, updates, media, approvals, service_records, now, hist, retry, cfgVars>>

\* the public URL of the file stored as "{vehicle_id}_{uuid4}.{ext}" in the
\* bucket vehicle-photos, its uuid4 told apart by the number u of the upload
PublicUrl(v, u) == <<"vehicle-photos", v, u>>

\* POST /vehicles/{vehicle_id}/media: the upload to storage and the insert;
\* the answer is not the row but success, the URL and the id of the row
UploadMedia(p, v, insertOk) ==
    /\ call[p].op = "idle"
    /\ nextId < MaxRows
    /\ pre' = [pre EXCEPT ![p] = Snapshot]
    /\ IF insertOk
       THEN LET row == [id |-> NewId, vehicle_id |-> v, media_url |-> PublicUrl(v, NewId)]
            IN  /\ media' = Append(media, row)
                /\ nextId' = NewId
                /\ UNCHANGED deleted
                /\ call' = [call EXCEPT ![p] =
                       [op |-> "upload_media", pc |-> "done", vehicle_id |-> v, code |-> 200,
                        body |-> [success |-> TRUE, media_url |-> row.media_url,
                                  media_id |-> row.id]]]
       ELSE /\ call' = [call EXCEPT ![p] = Rejected("upload_media", v)]
            /\ UNCHANGED <<media, nextId, deleted>>
    /\ UNCHANGED <<vehicles, issued, updates, messages, approvals, service_records, now, hist, retry, cfgVars>>

\* POST /vehicles/{vehicle_id}/approvals: the insert names neither approved
\* nor approved_at, which the table leaves null
CreateApproval(p, v, insertOk) ==
    /\ call[p].op = "idle"
    /\ nextId < MaxRows
    /\ pre' = [pre EXCEPT ![p] = Snapshot]
    /\ IF insertOk
       THEN LET row == [id |-> NewId, vehicle_id |-> v, approved |-> None, approved_at |-> None]
            IN  /\ approvals' = Append(approvals, row)
                /\ nextId' = NewId
                /\ UNCHANGED deleted
                /\ call' = [call EXCEPT ![p] = Inserted("create_approval", v, row)]
       ELSE /\ call' = [call EXCEPT ![p] = Rejected("create_approval", v)]
            /\ UNCHANGED <<approvals, nextId, deleted>>
    /\ UNCHANGED <<vehicles, issued, updates, messages, media, service_records, now, hist, retry, cfgVars>>

\* PATCH /approvals/{approval_id}: update approvals set approved, approved_at
\* where approval_id = a, unconditionally; no matching row is no error.
Responded(row, approved) == [row EXCEPT !.approved = Some(approved), !.approved_at = Some(now)]

RespondToApproval(p, a, approved, writeOk) ==
    /\ call[p].op = "idle"
    /\ pre' = [pre EXCEPT ![p] = Snapshot]
    /\ IF writeOk
       THEN /\ approvals' = [i \in 1 .. Len(approvals) |->
                    IF approvals[i].id = a THEN Responded(approvals[i], approved)
                    ELSE approvals[i]]
            /\ call' = [call EXCEPT ![p] =
                   [op |-> "respond_to_approval", pc |-> "done", approval_id |-> a,
                    code |-> 200, body |-> [success |-> TRUE, approved |-> approved]]]
       ELSE /\ call' = [call EXCEPT ![p] =
                   [op |-> "respond_to_approval", pc |-> "done", approval_id |-> a,
                    code |-> 500, body |-> NULL]]
            /\ UNCHANGED approvals
    /\ UNCHANGED <<vehicles, issued, updates, messages, media, service_records, nextId, deleted,
                   now, hist, retry, cfgVars>>

\* ---------------------------------------------------------- delete_vehicle
\* DELETE /vehicles/{vehicle_id}: five deletes in this order, none inside a
\* transaction.  failAt = 0: the store accepts all five; failAt = k: it
\* rejects the k-th, the earlier ones stay done and the answer is 500.
DeleteVehicle(p, v, failAt) ==
    /\ call[p].op = "idle"
    /\ pre' = [pre EXCEPT ![p] = Snapshot]
    /\ LET reached(k) == failAt = 0 \/ k < failAt
       IN  /\ messages' = IF reached(1) THEN Without(messages, v) ELSE messages
           /\ media' = IF reached(2) THEN Without(media, v) ELSE media
           /\ approvals' = IF reached(3) THEN Without(approvals, v) ELSE approvals
           /\ service_records' =
                  IF reached(4) THEN Without(service_records, v) ELSE service_records
           /\ vehicles' = IF reached(5)
                          THEN [x \in DOMAIN vehicles \ {v} |-> vehicles[x]]
                          ELSE vehicles
    /\ deleted' = IF failAt = 0 /\ v \in DOMAIN vehicles THEN deleted \cup {v} ELSE deleted
    /\ call' = [call EXCEPT ![p] =
           [op |-> "delete_vehicle", pc |-> "done", vehicle_id |-> v,
            code |-> IF failAt = 0 THEN 200 ELSE 500]]
    /\ retry' = retry \cap {service_records'[k].id : k \in 1 .. Len(service_records')}
    /\ UNCHANGED <<issued, updates, nextId, now, hist, cfgVars>>

\* the deletes of delete_vehicle: 0 for none rejected, or the one rejected
DeleteSteps == 0 .. 5

\* ------------------------------------------------------------- the lists
\* GET /vehicles/{vehicle_id}/messages|media|approvals|service: the rows
\* filed under the id, in the order the query asks for; no row is no error.
Listed(p, op, v, rows) ==
    /\ call[p].op = "idle"
    /\ call' = [call EXCEPT ![p] =
           [op |-> op, pc |-> "done", vehicle_id |-> v, code |-> 200, body |-> rows]]
    /\ UNCHANGED <<vehicles, issued, updates, childVars, now, hist, retry, cfgVars, pre>>

GetMessages(p, v) == Listed(p, "get_messages", v, RowsOf(messages, v))
GetMedia(p, v) == Listed(p, "get_media", v, Reverse(RowsOf(media, v)))
GetApprovals(p, v) == Listed(p, "get_approvals", v, RowsOf(approvals, v))
GetServiceRecords(p, v) ==
    Listed(p, "get_service_records", v, Reverse(RowsOf(service_records, v)))

\* time passes between requests
Tick ==
    /\ AllIdle
    /\ now + TickDays <= MaxTicks * TickDays
    /\ now' = now + TickDays
    /\ UNCHANGED <<vehicles, issued, updates, childVars, hist, retry, cfgVars, call, pre>>

\* ---------------------------------------------------- create_service_record
\* "if service.reminder_interval_months:" is false for None and for 0
Truthy(months) == months # None /\ months[1] # 0

\* Python's dates: date.min and date.max as day ordinals, the largest
\* timedelta in days, and the ordinal of the day the clock shows on day 0
\* (1 January 2026)
MinOrdinal == 1
MaxOrdinal == 3652059
MaxTimedeltaDays == 999999999
StartOrdinal == 739617

\* datetime.now() + timedelta(days=30 * months) on day `today`: timedelta
\* raises OverflowError beyond MaxTimedeltaDays days either way, and the sum
\* raises it when the date falls outside date.min .. date.max
Overflows(today, months) ==
    /\ Truthy(months)
    /\ LET days == DaysPerMonth * months[1]
       IN  \/ days > MaxTimedeltaDays
           \/ days < 0 - MaxTimedeltaDays
           \/ StartOrdinal + today + days > MaxOrdinal
           \/ StartOrdinal + today + days < MinOrdinal

\* what the computation comes to when it raises
OverflowError == <<"raised", "OverflowError">>

NextReminderDate(months) ==
    IF ~Truthy(months) THEN None
    ELSE IF Overflows(now, months) THEN OverflowError
    ELSE Some(now + DaysPerMonth * months[1])

\* the row create_service_record inserts
ServiceRow(v, months) ==
    [id |-> NewId, vehicle_id |-> v, reminder_interval_months |-> months,
     next_reminder_date |-> NextReminderDate(months), reminder_sent |-> FALSE]

\* ServiceRecordResponse(**row): the fields the response model declares,
\* reminder_sent not among them
ServiceRecordResponse(row) ==
    [id |-> row.id, vehicle_id |-> row.vehicle_id,
     reminder_interval_months |-> row.reminder_interval_months,
     next_reminder_date |-> row.next_reminder_date]

\* POST /vehicles/{vehicle_id}/service: the select (no row raises 404 inside
\* the try block, whose only clause is "except Exception"), the reminder
\* date (an OverflowError ends in 500 before anything is stored or sent),
\* the insert, the confirmation text, then the answer built from the row
\* the store returned.  ServiceRecordResponse(**service_data) is still
\* inside the try block: when the returned row does not satisfy the
\* response model (rowValid false) it raises after the row is stored and
\* the text attempted, and the answer is 500.
CreateServiceRecord(p, v, months, insertOk, rowValid, carrierOk) ==
    /\ call[p].op = "idle"
    /\ nextId < MaxRows
    /\ pre' = [pre EXCEPT ![p] = Snapshot]
    /\ LET rows == SelectVehicle(v)
           req == [op |-> "create_service_record", pc |-> "done", vehicle_id |-> v]
       IN  IF rows = <<>>
           THEN /\ call' = [call EXCEPT ![p] =
                       req @@ [code |-> ExceptException(404), body |-> NULL, sms |-> "none"]]
                /\ UNCHANGED <<service_records, nextId>>
           ELSE IF NextReminderDate(months) = OverflowError
           THEN /\ call' = [call EXCEPT ![p] =
                       req @@ [code |-> ExceptException(500), body |-> NULL, sms |-> "none"]]
                /\ UNCHANGED <<service_records, nextId>>
           ELSE IF insertOk
           THEN /\ service_records' = Append(service_records, ServiceRow(v, months))
                /\ nextId' = NewId
                /\ call' = [call EXCEPT ![p] =
                       IF rowValid
                       THEN req @@ [code |-> 200,
                                    body |-> ServiceRecordResponse(ServiceRow(v, months)),
                                    sms |-> SmsOutcome(carrierOk)]
                       ELSE req @@ [code |-> ExceptException(500), body |-> NULL,
                                    sms |-> SmsOutcome(carrierOk)]]
           ELSE /\ call' = [call EXCEPT ![p] =
                       req @@ [code |-> ExceptException(500), body |-> NULL, sms |-> "none"]]
                /\ UNCHANGED <<service_records, nextId>>
    /\ UNCHANGED <<vehicles, issued, updates, messages, media, approvals, deleted, now, retry,
                   hist, cfgVars>>

\* -------------------------------------------------------- get_due_reminders
\* select *, vehicles(*) from service_records where next_reminder_date <=
\* today and reminder_sent = false: a null date compares as not due; each
\* row carries its vehicle, or null when no vehicle row matches.
Joined(r) ==
    r @@ [vehicles |-> IF r.vehicle_id \in DOMAIN vehicles
                       THEN Some(vehicles[r.vehicle_id]) ELSE None]

IsDue(r) == r.next_reminder_date # None /\ r.next_reminder_date[1] <= now

DueQuery ==
    LET Unsent(r) == IsDue(r) /\ ~r.reminder_sent
        rows == SelectSeq(service_records, Unsent)
    IN  [i \in 1 .. Len(rows) |-> Joined(rows[i])]

GetDueReminders(p) ==
    /\ call[p].op = "idle"
    /\ call' = [call EXCEPT ![p] =
           [op |-> "get_due_reminders", pc |-> "done", code |-> 200, body |-> DueQuery]]
    /\ pre' = [pre EXCEPT ![p] = Snapshot]
    /\ UNCHANGED <<vehicles, issued, updates, childVars, now, retry, hist, cfgVars>>

\* ---------------------------------------------------- send_service_reminders
\* POST /service-reminders/send.  attempts lists the send_sms calls of the
\* invocation with their results; retry_prev is retry as the query found it.
IsDispatch(p) == call[p].op = "send_service_reminders"

DispatchQuery(p) ==
    /\ call[p].op = "idle"
    /\ call' = [call EXCEPT ![p] =
           [op |-> "send_service_reminders", pc |-> "loop", code |-> 0, due |-> DueQuery,
            i |-> 1, sent_count |-> 0, attempts |-> <<>>, retry_prev |-> retry]]
    /\ pre' = [pre EXCEPT ![p] = Snapshot]
    /\ UNCHANGED <<vehicles, issued, updates, childVars, now, retry, hist, cfgVars>>

\* (a failed text tried again at once instead of moving on)
DispatchSendUntilSent(p, carrierOk) ==
    /\ IsDispatch(p)
    /\ call[p].pc = "loop"
    /\ call[p].i <= Len(call[p].due)
    /\ Len(call[p].attempts) <= Len(call[p].due)
    /\ LET record == call[p].due[call[p].i]
       IN  IF record.vehicles = None
           THEN call' = [call EXCEPT ![p].i = @ + 1]
           ELSE call' = [call EXCEPT
                    ![p].attempts = Append(@, [id |-> record.id, ok |-> SmsResult(carrierOk)]),
                    ![p].pc = IF SmsResult(carrierOk) THEN "mark" ELSE "loop"]
    /\ UNCHANGED <<vehicles, issued, updates, childVars, now, retry, hist, cfgVars, pre>>

\* one pass of the loop up to the result of send_sms: a record without a
\* vehicle is skipped, a failed text moves on to the next record
DispatchSend(p, carrierOk) ==
    /\ IsDispatch(p)
    /\ call[p].pc = "loop"
    /\ call[p].i <= Len(call[p].due)
    /\ LET record == call[p].due[call[p].i]
       IN  IF record.vehicles = None
           THEN call' = [call EXCEPT ![p].i = @ + 1]
           ELSE call' = [call EXCEPT
                    ![p].attempts = Append(@, [id |-> record.id, ok |-> SmsResult(carrierOk)]),
                    ![p].pc = IF SmsResult(carrierOk) THEN "mark" ELSE "loop",
                    ![p].i = IF SmsResult(carrierOk) THEN @ ELSE @ + 1]
    /\ UNCHANGED <<vehicles, issued, updates, childVars, now, retry, hist, cfgVars, pre>>

\* the ids whose text failed in the invocation of slot p
FailedIds(p) == {call[p].attempts[k].id : k \in {j \in 1 .. Len(call[p].attempts) :
                                                    ~call[p].attempts[j].ok}}

\* update service_records set reminder_sent = true where service_id = sid
MarkedSent(table, sid) ==
    [k \in 1 .. Len(table) |->
        IF table[k].id = sid THEN [table[k] EXCEPT !.reminder_sent = TRUE] ELSE table[k]]

\* the write after a text that was sent; rejected, it raises out of the loop
\* and "except Exception" answers 500
DispatchMark(p, writeOk) ==
    /\ IsDispatch(p)
    /\ call[p].pc = "mark"
    /\ IF writeOk
       THEN /\ service_records' = MarkedSent(service_records, call[p].due[call[p].i].id)
            /\ call' = [call EXCEPT ![p].sent_count = @ + 1, ![p].i = @ + 1, ![p].pc = "loop"]
            /\ UNCHANGED retry
       ELSE /\ call' = [call EXCEPT ![p].pc = "done", ![p].code = 500]
            /\ retry' = FailedIds(p)
            /\ UNCHANGED service_records
    /\ UNCHANGED <<vehicles, issued, updates, messages, media, approvals, nextId, deleted, now,
                   hist, cfgVars, pre>>

\* the loop is through: {"success": True, "reminders_sent": sent_count}
DispatchReturn(p) ==
    /\ IsDispatch(p)
    /\ call[p].pc = "loop"
    /\ call[p].i > Len(call[p].due)
    /\ call' = [call EXCEPT ![p].pc = "done", ![p].code = 200]
    /\ retry' = FailedIds(p)
    /\ UNCHANGED <<vehicles, issued, updates, childVars, now, hist, cfgVars, pre>>

\* ------------------------------------------------- service specification
NextService ==
    \/ \E p \in Procs, insertOk \in BOOLEAN, rowValid \in BOOLEAN, carrierOk \in BOOLEAN :
           Sequential(p) /\ CreateVehicle(p, Uuid4, insertOk, rowValid, carrierOk)
    \/ \E p \in Procs, v \in VehicleIds, months \in MonthInputs,
          insertOk \in BOOLEAN, rowValid \in BOOLEAN, carrierOk \in BOOLEAN :
           Sequential(p) /\ CreateServiceRecord(p, v, months, insertOk, rowValid, carrierOk)
    \/ \E p \in Procs, v \in VehicleIds, failAt \in DeleteSteps :
           Sequential(p) /\ DeleteVehicle(p, v, failAt)
    \/ \E p \in Procs : Sequential(p) /\ GetDueReminders(p)
    \/ \E p \in Procs : Sequential(p) /\ DispatchQuery(p)
    \/ \E p \in Procs, carrierOk \in BOOLEAN : DispatchSend(p, carrierOk)
    \/ \E p \in Procs, writeOk \in BOOLEAN : DispatchMark(p, writeOk)
    \/ \E p \in Procs : DispatchReturn(p)
    \/ Tick
    \/ \E p \in Procs : Return(p)

\* none of these handlers reads ENABLE_STATUS_SMS: it is left at its default
InitService == Init /\ ~enableStatusSms

SpecService == InitService /\ [][NextService]_vars

\* ------------------------------------------------ dispatch specification
\* The tables when the cron caller comes by: the vehicles checked in, up to
\* MaxDue service records created for them in turn on day 0 with any of the
\* intervals that give a date, and TickDays gone by since.
InitDispatch ==
    /\ vehicles = [v \in VehicleIds |->
           [vehicle_id |-> v, unique_link |-> MaxTokens + 1 - v,
            status |-> "checked_in", awaiting_warranty |-> FALSE]]
    /\ issued = {MaxTokens + 1 - v : v \in VehicleIds}
    /\ \E r \in 1 .. MaxDue :
          \E ms \in [1 .. r -> {m \in MonthInputs : ~Overflows(0, m)}] :
              /\ service_records = [k \in 1 .. r |->
                     [id |-> k, vehicle_id |-> ((k - 1) % MaxVehicles) + 1,
                      reminder_interval_months |-> ms[k],
                      next_reminder_date |->
                          IF Truthy(ms[k]) THEN Some(DaysPerMonth * ms[k][1]) ELSE None,
                      reminder_sent |-> FALSE]]
              /\ nextId = r
    /\ now = TickDays
    /\ updates = <<>>
    /\ messages = <<>>
    /\ media = <<>>
    /\ approvals = <<>>
    /\ deleted = {}
    /\ retry = {}
    /\ hist = [v \in VehicleIds |-> <<>>]
    /\ twilioConfigured = TRUE
    /\ enableStatusSms = FALSE
    /\ call = [p \in Procs |-> Idle]
    /\ pre = [p \in Procs |-> NoSnap]

\* The cron caller and anyone else may post /service-reminders/send while
\* another invocation is between two of its calls on the store or the
\* sink.  The slots are interchangeable: an invocation begins in the first
\* of the free ones, whatever the others do.
FirstFree(p) == call[p].op = "idle" /\ \A q \in Procs : call[q].op = "idle" => p <= q

NextDispatch ==
    \/ \E p \in Procs : FirstFree(p) /\ DispatchQuery(p)
    \/ \E p \in Procs, carrierOk \in BOOLEAN : DispatchSend(p, carrierOk)
    \/ \E p \in Procs, writeOk \in BOOLEAN : DispatchMark(p, writeOk)
    \/ \E p \in Procs : DispatchReturn(p)
    \/ \E p \in Procs : Return(p)

SpecDispatch == InitDispatch /\ [][NextDispatch]_vars

\* ------------------------------------------------- records specification

\* The requests on the records, one at a time.  create_message, upload_media
\* and create_approval do not look the vehicle up: whether a row is stored
\* under an id that matches no vehicle is the store's answer to the insert.
NextRecords ==
    \/ \E p \in Procs, insertOk \in BOOLEAN, rowValid \in BOOLEAN, carrierOk \in BOOLEAN :
           Sequential(p) /\ CreateVehicle(p, Uuid4, insertOk, rowValid, carrierOk)
    \/ \E p \in Procs, v \in VehicleIds, ok \in BOOLEAN :
           Sequential(p) /\ CreateMessage(p, v, ok)
    \/ \E p \in Procs, v \in VehicleIds, ok \in BOOLEAN :
           Sequential(p) /\ UploadMedia(p, v, ok)
    \/ \E p \in Procs, v \in VehicleIds, ok \in BOOLEAN :
           Sequential(p) /\ CreateApproval(p, v, ok)
    \/ \E p \in Procs, v \in VehicleIds, months \in MonthInputs,
          insertOk \in BOOLEAN, rowValid \in BOOLEAN, carrierOk \in BOOLEAN :
           Sequential(p) /\ CreateServiceRecord(p, v, months, insertOk, rowValid, carrierOk)
    \/ \E p \in Procs, v \in VehicleIds, failAt \in DeleteSteps :
           Sequential(p) /\ DeleteVehicle(p, v, failAt)
    \/ \E p \in Procs, v \in VehicleIds : Sequential(p) /\ GetMessages(p, v)
    \/ \E p \in Procs, v \in VehicleIds : Sequential(p) /\ GetMedia(p, v)
    \/ \E p \in Procs, v \in VehicleIds : Sequential(p) /\ GetApprovals(p, v)
    \/ \E p \in Procs, v \in VehicleIds : Sequential(p) /\ GetServiceRecords(p, v)
    \/ \E p \in Procs : Return(p)

\* the deployment of the records: status texts off, the SMS client configured
InitRecords == InitService /\ twilioConfigured

SpecRecords == InitRecords /\ [][NextRecords]_vars

\* the requests that touch approvals, one at a time, and the passing of time
NextApprovals ==
    \/ \E p \in Procs, insertOk \in BOOLEAN, rowValid \in BOOLEAN, carrierOk \in BOOLEAN :
           Sequential(p) /\ CreateVehicle(p, Uuid4, insertOk, rowValid, carrierOk)
    \/ \E p \in Procs, v \in VehicleIds, ok \in BOOLEAN :
           Sequential(p) /\ CreateApproval(p, v, ok)
    \/ \E p \in Procs, a \in 1 .. MaxRows, approved \in BOOLEAN, ok \in BOOLEAN :
           Sequential(p) /\ RespondToApproval(p, a, approved, ok)
    \/ \E p \in Procs, v \in VehicleIds, failAt \in DeleteSteps :
           Sequential(p) /\ DeleteVehicle(p, v, failAt)
    \/ \E p \in Procs, v \in VehicleIds : Sequential(p) /\ GetApprovals(p, v)
    \/ Tick
    \/ \E p \in Procs : Return(p)

SpecApprovals == InitRecords /\ [][NextApprovals]_vars

\* ------------------------------------------------------ claims, vehicles
IsStatusCall(p) == call[p].op = "update_vehicle_status"
StatusCompleted(p) == IsStatusCall(p) /\ call[p].pc = "done" /\ call[p].code = 200

\* C1: a completed status transition of an existing vehicle with status S1
\* to S2 leaves that vehicle's status S2 and every other vehicle row as it
\* was, and appends exactly one Update record (old_status S1, new_status S2,
\* the supplied note, the acting user) to the records there were.
C1_TransitionWritesStatusAndOneUpdate ==
    \A p \in Procs : StatusCompleted(p) =>
        LET v == call[p].vehicle_id
            before == pre[p].vehicles
        IN  /\ v \in DOMAIN before
            /\ DOMAIN vehicles = DOMAIN before
            /\ vehicles[v] = [before[v] EXCEPT !.status = call[p].new_status]
            /\ \A x \in DOMAIN before \ {v} : vehicles[x] = before[x]
            /\ updates = Append(pre[p].updates,
                   [vehicle_id |-> v, user_id |-> call[p].user_id,
                    old_status |-> before[v].status,
                    new_status |-> call[p].new_status,
                    message |-> call[p].message])

\* a completed transition to another status, with a second vehicle and an
\* earlier Update record in the tables
C1_Witness ==
    \E p \in Procs :
        /\ StatusCompleted(p)
        /\ Cardinality(DOMAIN vehicles) >= 2
        /\ Len(pre[p].updates) >= 1
        /\ pre[p].vehicles[call[p].vehicle_id].status # call[p].new_status

\* C2: a status transition whose vehicle id matches no vehicle ends at once
\* with 404; no vehicle row is updated, no Update record inserted and no
\* text attempted.
C2_UnknownVehicleIs404 ==
    \A p \in Procs :
        (IsStatusCall(p) /\ call[p].vehicle_id \notin DOMAIN pre[p].vehicles) =>
            /\ call[p].pc = "done"
            /\ call[p].code = 404
            /\ vehicles = pre[p].vehicles
            /\ updates = pre[p].updates
            /\ call[p].sms = "none"

\* a transition for an id that matches no vehicle, while another vehicle and
\* an Update record exist
C2_Witness ==
    \E p \in Procs :
        /\ IsStatusCall(p)
        /\ call[p].vehicle_id \notin DOMAIN vehicles
        /\ vehicles # <<>>
        /\ updates # <<>>

\* C3: the text is attempted only after the status write and the Update
\* insert are both in the tables; whatever the text comes to (sent, failed,
\* client not configured, toggle off) the request answers 200 and the
\* written status and record stay; and a request whose two writes succeeded
\* never answers an error.
C3_NotificationNeverChangesResult ==
    \A p \in Procs : IsStatusCall(p) =>
        LET v == call[p].vehicle_id
            written ==
                /\ v \in DOMAIN vehicles
                /\ vehicles[v].status = call[p].new_status
                /\ updates = Append(pre[p].updates, UpdateRecord(call[p]))
        IN  /\ (call[p].pc = "sms" \/ call[p].sms # "none") => written
            /\ call[p].sms # "none" =>
                   /\ call[p].pc = "done"
                   /\ call[p].code = 200
                   /\ call[p].sms \in {"sent", "failed", "unconfigured", "disabled"}
                   /\ call[p].sms = "disabled" <=> ~enableStatusSms
                   /\ call[p].sms = "unconfigured" <=> (enableStatusSms /\ ~twilioConfigured)
            /\ (call[p].pc = "done" /\ call[p].code # 200) =>
                   (call[p].sms = "none" /\ updates = pre[p].updates)

\* a transition whose text the carrier refused and which answered 200
C3_Witness ==
    \E p \in Procs :
        /\ StatusCompleted(p)
        /\ call[p].sms = "failed"
        /\ vehicles[call[p].vehicle_id].status # pre[p].vehicles[call[p].vehicle_id].status

\* C4: a lookup by tracking token answers 200 with exactly the vehicle that
\* was created with the token, and 404 for a token that was never issued.
C4_LookupByTokenOr404 ==
    \A p \in Procs :
        (call[p].op = "get_vehicle_by_link" /\ call[p].pc = "done") =>
            LET t == call[p].link
                hit == {v \in DOMAIN vehicles : vehicles[v].unique_link = t}
            IN  /\ hit # {} =>
                    (call[p].code = 200 /\ \E v \in hit : call[p].body = vehicles[v])
                /\ t \notin issued => call[p].code = 404

\* ------------------------------------------------------ claims, warranty
TwoTogglesInARow(v) == v \in DOMAIN vehicles /\ Len(hist[v]) = 2

\* C7 as the spec states it: after two toggles in a row the vehicle has the
\* status and the awaiting_warranty value it had before the first.
C7_ToggleTwiceRestoresStatusAndFlag ==
    \A v \in VehicleIds : TwoTogglesInARow(v) =>
        /\ vehicles[v].awaiting_warranty = hist[v][1].awaiting_warranty
        /\ vehicles[v].status = hist[v][1].status

\* C7, amended: after two toggles in a row awaiting_warranty has its
\* original value and the status is the one that value forces
\* (awaiting_warranty when true, in_progress when false); so the original
\* status is back exactly when it was that one.
C7_ToggleTwiceRestoresFlagAndForcedStatus ==
    \A v \in VehicleIds : TwoTogglesInARow(v) =>
        /\ vehicles[v].awaiting_warranty = hist[v][1].awaiting_warranty
        /\ vehicles[v].status = WarrantyStatus(hist[v][1].awaiting_warranty)
        /\ (vehicles[v].status = hist[v][1].status) <=>
               (hist[v][1].status = WarrantyStatus(hist[v][1].awaiting_warranty))

\* two toggles in a row from a baseline under warranty hold whose status a
\* transition had moved to checked_in
C7_Witness ==
    \E v \in VehicleIds :
        /\ TwoTogglesInARow(v)
        /\ hist[v][1].awaiting_warranty
        /\ hist[v][1].status = "checked_in"

\* ------------------------------------------------------- claims, service
\* the row of a table with this id (the tables hold at most one)
RowById(table, sid) == table[CHOOSE k \in 1 .. Len(table) : table[k].id = sid]
HasRow(table, sid) == \E k \in 1 .. Len(table) : table[k].id = sid
IdsOf(rows) == {rows[k].id : k \in 1 .. Len(rows)}
AttemptedIds(p) == {call[p].attempts[k].id : k \in 1 .. Len(call[p].attempts)}
SentIds(p) == {call[p].attempts[k].id : k \in {j \in 1 .. Len(call[p].attempts) :
                                                  call[p].attempts[j].ok}}
DispatchEnded(p) == IsDispatch(p) /\ call[p].pc = "done"

\* C5, first half: an invocation sends nothing for a record that had
\* reminder_sent = true when its due-query ran, and every record it sends
\* for was due, unsent and had a vehicle.
C5_NeverResends ==
    \A p \in Procs : IsDispatch(p) =>
        /\ \A k \in 1 .. Len(pre[p].service_records) :
               pre[p].service_records[k].reminder_sent =>
                   pre[p].service_records[k].id \notin AttemptedIds(p)
        /\ AttemptedIds(p) \subseteq IdsOf(call[p].due)
        /\ \A k \in 1 .. Len(call[p].due) :
               LET r == call[p].due[k]
               IN  /\ ~RowById(pre[p].service_records, r.id).reminder_sent
                   /\ r.next_reminder_date # None
                   /\ r.next_reminder_date[1] <= now

\* C5: with dispatch invocations one after another, a record flagged at the
\* due-query is never sent for, and every due, unsent record with a vehicle
\* whose text was sent has reminder_sent = true when the invocation ends
\* and is not in the due-query any more.
C5_SentIsFlaggedWhenInvocationEnds ==
    /\ C5_NeverResends
    /\ \A p \in Procs : DispatchEnded(p) =>
           \A sid \in SentIds(p) :
               /\ RowById(service_records, sid).reminder_sent
               /\ sid \notin IdsOf(DueQuery)

\* C10: recording a service event for a vehicle id that matches no vehicle
\* answers 404; no service record is stored and no text is sent.
C10_ServiceForUnknownVehicleIs404 ==
    \A p \in Procs :
        (call[p].op = "create_service_record"
             /\ call[p].vehicle_id \notin DOMAIN pre[p].vehicles) =>
            /\ call[p].code = 404
            /\ service_records = pre[p].service_records
            /\ call[p].sms = "none"

\* the records whose reminder_sent the invocation of slot p turned true
Flipped(p) ==
    {sid \in IdsOf(pre[p].service_records) :
        /\ ~RowById(pre[p].service_records, sid).reminder_sent
        /\ RowById(service_records, sid).reminder_sent}

\* C6, the part about creation, failed sends and the count: a created
\* record has reminder_sent = false; a record whose text failed is still
\* unflagged and due when the invocation ends, and stays in the due-query
\* until the next invocation; the count an invocation returns is the number
\* of records it flipped.
C6_CreatedUnsentFailedStaysDue ==
    /\ \A p \in Procs : (call[p].op = "create_service_record" /\ call[p].code = 200) =>
           /\ HasRow(service_records, call[p].body.id)
           /\ ~RowById(service_records, call[p].body.id).reminder_sent
           /\ ServiceRecordResponse(RowById(service_records, call[p].body.id)) = call[p].body
    /\ \A p \in Procs : DispatchEnded(p) =>
           /\ \A sid \in FailedIds(p) :
                  /\ ~RowById(service_records, sid).reminder_sent
                  /\ sid \in IdsOf(DueQuery)
           /\ call[p].code = 200 => call[p].sent_count = Cardinality(Flipped(p))
    /\ (\A p \in Procs : ~IsDispatch(p)) => retry \subseteq IdsOf(DueQuery)

\* C6: reminder_sent is false at creation; a record whose text failed stays
\* unflagged and due, is returned again by the next due-query and is
\* attempted again by the next dispatch invocation; the count returned is
\* the number of records flipped.
C6_FailedIsRetriedByNextInvocation ==
    /\ C6_CreatedUnsentFailedStaysDue
    /\ \A p \in Procs : DispatchEnded(p) => call[p].retry_prev \subseteq AttemptedIds(p)

\* ------------------------------------------------------- claims, records
ListOps == {"get_messages", "get_media", "get_approvals", "get_service_records"}

\* what a delete that answered 200 leaves: the vehicle row and every message,
\* media, approval and service record filed under its id are not there, and
\* the rows of other vehicles are as they were
DeleteRemovedAll ==
    \A p \in Procs : (call[p].op = "delete_vehicle" /\ call[p].code = 200) =>
        LET v == call[p].vehicle_id
        IN  /\ v \notin DOMAIN vehicles
            /\ NoRowsOf(v)
            /\ DOMAIN vehicles = DOMAIN pre[p].vehicles \ {v}
            /\ \A x \in DOMAIN vehicles : vehicles[x] = pre[p].vehicles[x]
            /\ messages = Without(pre[p].messages, v)
            /\ media = Without(pre[p].media, v)
            /\ approvals = Without(pre[p].approvals, v)
            /\ service_records = Without(pre[p].service_records, v)

C9_DecisionIsFinal ==
    /\ [](\A p \in Procs : (call[p].op = "create_approval" /\ call[p].code = 200) =>
              (call[p].body.approved = None /\ call[p].body.approved_at = None))
    /\ [][\A k \in 1 .. Len(approvals) :
              (approvals[k].approved # None /\ HasRow(approvals', approvals[k].id)) =>
                  RowById(approvals', approvals[k].id) = approvals[k]]_vars

\* ------------------------------------------------ claims, reminder dates
\* C11: a service record created at time T with a reminder interval of m
\* months (0 included) is stored with next_reminder_date = T + 30 * m days;
\* created without an interval it has no next_reminder_date and is never in
\* the due-query; either way it is stored with reminder_sent = false.
C11_ReminderDateIsThirtyDaysPerMonth ==
    /\ \A p \in Procs : (call[p].op = "create_service_record" /\ call[p].code = 200) =>
           LET row == RowById(service_records, call[p].body.id)
               m == row.reminder_interval_months
           IN  /\ HasRow(service_records, call[p].body.id)
               /\ ServiceRecordResponse(row) = call[p].body
               /\ ~row.reminder_sent
               /\ m # None => row.next_reminder_date = Some(now + 30 * m[1])
               /\ m = None => row.next_reminder_date = None
    /\ \A k \in 1 .. Len(service_records) :
           service_records[k].reminder_interval_months = None =>
               /\ service_records[k].next_reminder_date = None
               /\ service_records[k].id \notin IdsOf(DueQuery)

\* ----------------------------------------------------- claims, dispatch
\* the invocations, among those whose response is not yet delivered, that
\* have sent a text for record sid, and those whose due-query returned it
SentBy(sid) == {p \in Procs : IsDispatch(p) /\ sid \in SentIds(p)}
ReturnedTo(sid) == {p \in Procs : IsDispatch(p) /\ sid \in IdsOf(call[p].due)}

\* C12: an invocation calls send_sms at most once for a record, and only
\* for a record its due-query returned, that is one with reminder_sent =
\* false when the query ran; so a record has two texts from two invocations
\* only when both ran their due-query before either wrote reminder_sent =
\* true, and the texts a record has received never outnumber the
\* invocations whose due-query returned it.
C12_DoubleSendOnlyWhenBothQueriedFirst ==
    /\ \A p \in Procs : IsDispatch(p) =>
           /\ \A j, k \in 1 .. Len(call[p].attempts) :
                  call[p].attempts[j].id = call[p].attempts[k].id => j = k
           /\ AttemptedIds(p) \subseteq IdsOf(call[p].due)
           /\ \A sid \in IdsOf(call[p].due) :
                  ~RowById(pre[p].service_records, sid).reminder_sent
    /\ \A k \in 1 .. Len(service_records) :
           LET sid == service_records[k].id
           IN  /\ Cardinality(SentBy(sid)) <= Cardinality(ReturnedTo(sid))
               /\ \A p, q \in SentBy(sid) : p # q =>
                      /\ ~RowById(pre[p].service_records, sid).reminder_sent
                      /\ ~RowById(pre[q].service_records, sid).reminder_sent

\* two invocations that have each sent a text for the same record
C12_Witness ==
    \E p, q \in Procs, k \in 1 .. Len(service_records) :
        /\ p # q
        /\ p \in SentBy(service_records[k].id)
        /\ q \in SentBy(service_records[k].id)

\* ---------------------------------------------------- claims, audit log
\* the Update records of vehicle v, in insertion order
UpdatesOf(v) == LET Of(r) == r.vehicle_id = v IN SelectSeq(updates, Of)

\* C13: with status transitions one at a time, in every state where none is
\* in progress (the last one may have answered an error) the Update records
\* of each vehicle form a chain: the first has old_status = checked_in, each
\* later one has old_status = the new_status of the one before it, and the
\* status of the vehicle is the new_status of the last one, or checked_in
\* when there is none.
C13_UpdatesFormAChain ==
    (\A p \in Procs : IsStatusCall(p) => call[p].pc = "done") =>
        \A v \in DOMAIN vehicles :
            LET us == UpdatesOf(v)
            IN  /\ us = <<>> => vehicles[v].status = "checked_in"
                /\ us # <<>> =>
                       /\ us[1].old_status = "checked_in"
                       /\ \A k \in 2 .. Len(us) : us[k].old_status = us[k - 1].new_status
                       /\ vehicles[v].status = us[Len(us)].new_status

====
